---- MODULE Spec2Model ----
(***************************************************************************)
(* ESPCompiler (soulstruct/base/ezstate/esd/esp_compiler.py): the compiler *)
(* of ESP state-machine scripts into ESD states.  The model follows the    *)
(* compiler from compile_script down to compile_ezl.                       *)
(*                                                                         *)
(* AST nodes are records with a "type" field named after the Python ast    *)
(* class.  Byte strings are sequences of 0..255.  A raised exception is    *)
(* the string err (the exception class and the raise site); "" is none.    *)
(* Node kinds modelled: If, Return, Expr, Pass, Call, BoolOp, UnaryOp,     *)
(* Constant (integers), Name.                                              *)
(***************************************************************************)
EXTENDS Integers, Sequences, FiniteSets, TLC

VARIABLES
    script,          \* history: the ClassDef nodes as ast.parse made them
    previous,        \* history: the run of compile_script, and the states of the run before
    tree,            \* self.tree.body[1:], the ClassDef nodes (mutated by build_conditions)
    pc,              \* position in compile_script: "scan", "build", "member", "call", "node", "done", "error"
    err,             \* the exception that ended compile_script, "" if none
    scan_i,          \* number of top-level nodes scanned by the first loop of compile_script
    state_info,      \* self.state_info as an insertion-ordered sequence of entries
    states,          \* self.states as an insertion-ordered sequence of [index, state]
    build_i,         \* number of state_info entries handed to build_state
    member_i,        \* build_state: number of member nodes processed
    cur,             \* build_state locals: conditions, enter/exit/ongoing commands
    stack,           \* build_conditions activations, innermost last
    callee,          \* arguments of the build_conditions call about to start
    registers,       \* self.registers
    state_call_set,  \* self.state_call_set
    to_write_count,  \* self.to_write_count
    to_write,        \* self.to_write (FIFO queue), head first
    current_to_write,\* self.current_to_write
    to_write_node,   \* history: for each queue entry, the node the planner made it for
    node_log         \* history: one record per condition node compiled in the current test block

vars == <<script, previous, tree, pc, err, scan_i, state_info, states, build_i, member_i, cur, stack,
          callee, registers, state_call_set, to_write_count, to_write,
          current_to_write, to_write_node, node_log>>

-----------------------------------------------------------------------------
(* Bounds of the checked scripts *)

MaxStates == 2      \* state classes with a test tree per script (plus the End state)
MaxChain == 3       \* operands of the longest boolean chain
MaxMembers == 3     \* members of a state class in the scripts that vary them

(* Program constants *)

NumRegisters == 8   \* [()] * 8, and the budget test to_write_count < 8

-----------------------------------------------------------------------------
(* AST constructors (what ast.parse produces) *)

Constant(n) == [type |-> "Constant", value |-> n]
Name(id) == [type |-> "Name", id |-> id]
UnaryOp(op, operand) == [type |-> "UnaryOp", op |-> op, operand |-> operand]
BoolOp(op, values) == [type |-> "BoolOp", op |-> op, values |-> values]
Call(func, args) == [type |-> "Call", func |-> func, args |-> args]
Expr(value) == [type |-> "Expr", value |-> value]
Return(value) == [type |-> "Return", value |-> value]
If(test, body, orelse) == [type |-> "If", test |-> test, body |-> body, orelse |-> orelse]
Pass == [type |-> "Pass"]
FunctionDef(name, body) == [type |-> "FunctionDef", name |-> name, body |-> body]
ClassDef(name, docstring, body) ==
    [type |-> "ClassDef", name |-> name, docstring |-> docstring, body |-> body]

\* `-1` as ast.parse produces it: UnaryOp(USub, Constant(1))
MinusOne == UnaryOp("USub", Constant(1))

-----------------------------------------------------------------------------
(* Helpers *)

\* Body applied to a value that is computed once
With(value, Body(_)) == CHOOSE r \in { Body(x) : x \in {value} } : TRUE

RECURSIVE Flatten(_)
Flatten(ss) == IF ss = <<>> THEN <<>> ELSE Head(ss) \o Flatten(Tail(ss))

InSeq(x, s) == \E k \in 1..Len(s) : s[k] = x

\* list.index(x): the first position of x (0-based)
IndexOf(x, s) == (CHOOSE k \in 1..Len(s) : s[k] = x /\ \A j \in 1..(k-1) : s[j] # x) - 1

\* list.remove(x): drop the first occurrence of x
ListRemove(s, x) ==
    LET k == IndexOf(x, s) + 1
    IN  SubSeq(s, 1, k - 1) \o SubSeq(s, k + 1, Len(s))

-----------------------------------------------------------------------------
(* External tables (functions.py, ezl_parser.py) *)

\* TEST_FUNCTIONS_ID_BY_TYPE_NAME[esd type, name]
TEST_FUNCTIONS_ID == [A |-> 1, B |-> 2, F |-> 3, G |-> 4]

\* COMMANDS_BANK_ID_BY_TYPE_NAME[esd type, name]
COMMANDS_BANK_ID == [Cmd |-> <<1, 10>>, Cmd2 |-> <<1, 11>>]

\* FUNCTION_ARG_BYTES_BY_COUNT[n]
FUNCTION_ARG_BYTES(n) == <<132 + n>>

-----------------------------------------------------------------------------
(* Numbers *)

\* struct.pack("<i", n) for n in the int32 range
\* (\div rounds down, so a negative n yields its two's complement bytes)
PackInt32(n) ==
    << n % 256, (n \div 256) % 256, (n \div 65536) % 256, (n \div 16777216) % 256 >>

\* Faulty variant of compile_number: 63 is taken for a single byte
compile_number_to_63(n) ==
    IF -64 <= n /\ n <= 63 THEN <<n + 64>> ELSE <<130>> \o PackInt32(n)

compile_number(n) ==
    IF -64 <= n /\ n < 63 THEN <<n + 64>> ELSE <<130>> \o PackInt32(n)

-----------------------------------------------------------------------------
(* Static predicates on nodes *)

is_call(node) == node.type = "Expr" /\ node.value.type = "Call"

Num(node) == node.type = "Constant"

-----------------------------------------------------------------------------
(* Call signatures *)

\* A Python str and a Python int never compare equal: values carry their type.
PyStr(s) == <<"str", s>>
PyInt(n) == <<"int", n>>

\* One iteration of parse_args: the value of an argument node
parse_arg(node) ==
    IF Num(node) THEN [err |-> "", value |-> node.value]
    ELSE IF node.type = "UnaryOp" /\ node.op = "USub"
    THEN IF Num(node.operand) THEN [err |-> "", value |-> 0 - node.operand.value]
         ELSE [err |-> "AttributeError:parse_args", value |-> 0]
    ELSE [err |-> "ESDValueError:function_arguments", value |-> 0]

\* parse_args: the tuple of argument values, or the exception raised
RECURSIVE parse_args(_)
parse_args(arg_nodes) ==
    IF arg_nodes = <<>> THEN [err |-> "", args |-> <<>>]
    ELSE With(parse_arg(Head(arg_nodes)), LAMBDA h :
             IF h.err # "" THEN [err |-> h.err, args |-> <<>>]
             ELSE With(parse_args(Tail(arg_nodes)), LAMBDA t :
                      IF t.err # "" THEN t
                      ELSE [err |-> "", args |-> <<h.value>> \o t.args]))

\* get_calls, Call branch: the planner's key (function_name, *args)
planner_call(function_name, args) == <<PyStr(function_name), args>>

\* compile_test_function: the compiler's key (f_id, *args)
compiler_call(f_id, args) == <<PyInt(f_id), args>>

\* get_calls: the call tuples inside a test node, left to right
RECURSIVE get_calls(_)
RECURSIVE get_calls_values(_)
get_calls_values(values) ==
    IF values = <<>> THEN [err |-> "", calls |-> <<>>]
    ELSE With(get_calls(Head(values)), LAMBDA h :
             IF h.err # "" THEN h
             ELSE With(get_calls_values(Tail(values)), LAMBDA t :
                      IF t.err # "" THEN t
                      ELSE [err |-> "", calls |-> h.calls \o t.calls]))

get_calls(node) ==
    IF node.type \in {"Name", "Constant"} THEN [err |-> "", calls |-> <<>>]
    ELSE IF node.type = "UnaryOp"
    THEN IF node.op \notin {"Not", "USub"}
         THEN [err |-> "ESDSyntaxError:unary_operator", calls |-> <<>>]
         ELSE get_calls(node.operand)
    ELSE IF node.type = "BoolOp" THEN get_calls_values(node.values)
    ELSE IF node.type = "Call"
    THEN With(parse_args(node.args), LAMBDA a :
             IF a.err # "" THEN [err |-> a.err, calls |-> <<>>]
             ELSE [err |-> "", calls |-> <<planner_call(node.func, a.args)>>])
    ELSE [err |-> "ESDSyntaxError:invalid_node_in_condition", calls |-> <<>>]

-----------------------------------------------------------------------------
(* plan_condition_registers *)

\* The register context the planner reads and writes
PlanCtx(set, count, queue, qnodes, e) ==
    [state_call_set |-> set, to_write_count |-> count, to_write |-> queue,
     to_write_node |-> qnodes, err |-> e]

\* `if call in self.state_call_set and self.to_write_count < 8`
earns_register(call, set, count) == call \in set /\ count < NumRegisters

\* for call in call_list: the budget test and the seen set
RECURSIVE plan_calls(_, _, _, _)
plan_calls(call_list, first_time_calls, set, count) ==
    IF call_list = <<>>
    THEN [first_time_calls |-> first_time_calls, state_call_set |-> set, to_write_count |-> count]
    ELSE IF earns_register(Head(call_list), set, count)
    THEN plan_calls(Tail(call_list), Append(first_time_calls, Head(call_list)), set, count + 1)
    ELSE plan_calls(Tail(call_list), first_time_calls, set \cup {Head(call_list)}, count)

\* for body_node in if_node.body: the subcondition nodes, or the ordering error
RECURSIVE plan_scan_body(_, _, _)
plan_scan_body(body, subconditions_allowed, subcondition_nodes) ==
    IF body = <<>> THEN [err |-> "", nodes |-> subcondition_nodes]
    ELSE IF Head(body).type # "If"
    THEN plan_scan_body(Tail(body), FALSE, subcondition_nodes)
    ELSE IF ~subconditions_allowed
    THEN [err |-> "ESDSyntaxError:plan_subcondition_out_of_order", nodes |-> <<>>]
    ELSE plan_scan_body(Tail(body), subconditions_allowed,
                        Append(subcondition_nodes, Head(body)))

\* Faulty variant of plan_put: the calls are counted and nothing is queued
plan_put_nothing(ctx, p, node) ==
    PlanCtx(p.state_call_set, p.to_write_count, ctx.to_write, ctx.to_write_node, "")

\* self.to_write.put(first_time_calls) after the calls p of node `node` were processed
plan_put(ctx, p, node) ==
    PlanCtx(p.state_call_set, p.to_write_count, Append(ctx.to_write, p.first_time_calls),
            Append(ctx.to_write_node, node), "")

\* plan_condition_registers(if_node_list) from node i on; path names the list's parent
RECURSIVE plan_condition_registers(_, _, _, _)
plan_condition_registers(if_node_list, i, path, ctx) ==
    IF ctx.err # "" \/ i > Len(if_node_list) THEN ctx
    ELSE IF if_node_list[i].type # "If"
    THEN [ctx EXCEPT !.err = "ESDSyntaxError:plan_only_if_blocks"]
    ELSE With(get_calls(if_node_list[i].test), LAMBDA c :
         IF c.err # "" THEN [ctx EXCEPT !.err = c.err]
         ELSE With(plan_put(ctx, plan_calls(c.calls, <<>>, ctx.state_call_set,
                                            ctx.to_write_count),
                            Append(path, i)), LAMBDA put :
              With(plan_scan_body(if_node_list[i].body, TRUE, <<>>), LAMBDA s :
              IF s.err # "" THEN [put EXCEPT !.err = s.err]
              ELSE With(plan_condition_registers(s.nodes, 1, Append(path, i), put),
                        LAMBDA sub :
                        plan_condition_registers(if_node_list, i + 1, path, sub)))))

-----------------------------------------------------------------------------
(* compile_ezl and compile_test_function *)

\* What compiling an expression yields: the bytes, and the registers and the
\* current node's pending list as the compilation left them
Compiled(e, bytes, regs, ctw) ==
    [err |-> e, bytes |-> bytes, registers |-> regs, current_to_write |-> ctw]

\* b"".join(self.compile_ezl(arg) for arg in args), the args being numbers
RECURSIVE compile_args(_)
compile_args(args) ==
    IF args = <<>> THEN <<>> ELSE compile_number(Head(args)) \o compile_args(Tail(args))

\* The lowest-indexed empty register (1-based), 0 if none is empty
first_empty_register(regs) ==
    IF \E i \in 1..Len(regs) : regs[i] = <<>>
    THEN CHOOSE k \in 1..Len(regs) : regs[k] = <<>> /\ \A j \in 1..(k-1) : regs[j] # <<>>
    ELSE 0

\* save_into_next_available_register: claims the lowest-indexed empty slot.
\* With no empty slot the method returns None and the caller's += raises.
save_into_next_available_register(call, regs, ctw) ==
    With(first_empty_register(regs), LAMBDA i :
        IF i > 0
        THEN Compiled("", <<(i - 1) + 167>>, [regs EXCEPT ![i] = call], ListRemove(ctw, call))
        ELSE Compiled("TypeError:save_returned_None", <<>>, regs, ctw))

\* The equals suffix of compile_test_function ("" is equals=None)
equals_suffix(equals) ==
    IF equals = "" THEN <<>> ELSE IF equals = "0" THEN <<64, 149>> ELSE <<65, 149>>

\* compile_test_function from `call = (f_id, *args)` on
compile_call(call, f_id, args, equals, regs, ctw) ==
    IF InSeq(call, regs)
    THEN Compiled("", <<IndexOf(call, regs) + 175>>, regs, ctw)
    ELSE With(compile_number(f_id) \o compile_args(args) \o FUNCTION_ARG_BYTES(Len(args)),
              LAMBDA compiled :
         IF InSeq(call, ctw)
         THEN With(save_into_next_available_register(call, regs, ctw), LAMBDA s :
                  IF s.err # "" THEN s
                  ELSE IF ~InSeq(call, s.current_to_write)
                  THEN Compiled("ValueError:list_remove", <<>>, s.registers, s.current_to_write)
                  ELSE Compiled("", compiled \o s.bytes \o equals_suffix(equals),
                                s.registers, ListRemove(s.current_to_write, call)))
         ELSE Compiled("", compiled \o equals_suffix(equals), regs, ctw))

compile_test_function(call_node, equals, regs, ctw) ==
    IF call_node.func \notin DOMAIN TEST_FUNCTIONS_ID
    THEN Compiled("ESDValueError:invalid_function_name", <<>>, regs, ctw)
    ELSE With(parse_args(call_node.args), LAMBDA a :
             IF a.err # "" THEN Compiled(a.err, <<>>, regs, ctw)
             ELSE compile_call(compiler_call(TEST_FUNCTIONS_ID[call_node.func], a.args),
                               TEST_FUNCTIONS_ID[call_node.func], a.args, equals, regs, ctw))

\* Faulty variant of bool_terminator: the AND terminator whatever the chain
bool_terminator_of_and(is_and, ctw) == <<183>>

\* The terminator compile_ezl puts after an operand of a boolean chain
bool_terminator(is_and, ctw) == IF is_and /\ ctw = <<>> THEN <<183>> ELSE <<166>>

\* The combinator after every operand but the first (i is 0-based)
bool_combinator(is_and, i) == IF i > 0 THEN (IF is_and THEN <<152>> ELSE <<153>>) ELSE <<>>

\* What compile_ezl appends for operand i of a chain, v being the compiled operand
bool_operand(is_and, i, acc, v) ==
    IF v.err # "" THEN v
    ELSE Compiled("", acc.bytes \o v.bytes \o bool_terminator(is_and, v.current_to_write)
                         \o bool_combinator(is_and, i),
                  v.registers, v.current_to_write)

RECURSIVE compile_ezl(_, _, _)
RECURSIVE compile_bool_values(_, _, _)
\* for i, value in enumerate(node.values), from the already compiled prefix acc
compile_bool_values(node, i, acc) ==
    IF acc.err # "" \/ i >= Len(node.values) THEN acc
    ELSE With(bool_operand(node.op = "And", i, acc,
                           compile_ezl(node.values[i + 1], acc.registers,
                                       acc.current_to_write)),
              LAMBDA next : compile_bool_values(node, i + 1, next))

compile_ezl(node, regs, ctw) ==
    IF Num(node) THEN Compiled("", compile_number(node.value), regs, ctw)
    ELSE IF node.type = "UnaryOp" /\ node.op = "USub"
    THEN IF Num(node.operand)
         THEN Compiled("", compile_number(0 - node.operand.value), regs, ctw)
         ELSE Compiled("ESDSyntaxError:negate_non_numeric", <<>>, regs, ctw)
    ELSE IF node.type = "UnaryOp" /\ node.op = "Not"
    THEN IF is_call(node.operand)
         THEN Compiled("AttributeError:Expr_has_no_keywords", <<>>, regs, ctw)
         ELSE Compiled("ESDSyntaxError:not_on_non_call", <<>>, regs, ctw)
    ELSE IF node.type = "BoolOp"
    THEN compile_bool_values(node, 0, Compiled("", <<>>, regs, ctw))
    ELSE IF node.type = "Call" THEN compile_test_function(node, "", regs, ctw)
    ELSE IF node.type = "Name"
    THEN IF node.id = "MACHINE_CALL_STATUS" THEN Compiled("", <<185>>, regs, ctw)
         ELSE IF node.id = "ONGOING" THEN Compiled("", <<186>>, regs, ctw)
         ELSE Compiled("ESDSyntaxError:invalid_name_symbol", <<>>, regs, ctw)
    ELSE Compiled("TypeError:invalid_node_in_test", <<>>, regs, ctw)

-----------------------------------------------------------------------------
(* build_command *)

Command(bank, f_id, args) == [bank |-> bank, f_id |-> f_id, args |-> args]

\* [self.compile_ezl(arg) + b"\xa1" for arg in args]
RECURSIVE compile_command_args(_, _, _, _)
compile_command_args(args, acc, regs, ctw) ==
    IF args = <<>> THEN [err |-> "", args |-> acc, registers |-> regs, current_to_write |-> ctw]
    ELSE With(compile_ezl(Head(args), regs, ctw), LAMBDA c :
             IF c.err # ""
             THEN [err |-> c.err, args |-> acc, registers |-> c.registers,
                   current_to_write |-> c.current_to_write]
             ELSE compile_command_args(Tail(args), Append(acc, c.bytes \o <<161>>),
                                       c.registers, c.current_to_write))

build_command(node, regs, ctw) ==
    IF ~is_call(node)
    THEN [err |-> "ESDSyntaxError:expected_function_call", command |-> <<>>,
          registers |-> regs, current_to_write |-> ctw]
    ELSE IF node.value.func \notin DOMAIN COMMANDS_BANK_ID
    THEN [err |-> "ESDError:invalid_command", command |-> <<>>,
          registers |-> regs, current_to_write |-> ctw]
    ELSE With(compile_command_args(node.value.args, <<>>, regs, ctw), LAMBDA a :
             [err |-> a.err,
              command |-> Command(COMMANDS_BANK_ID[node.value.func][1],
                                  COMMANDS_BANK_ID[node.value.func][2], a.args),
              registers |-> a.registers, current_to_write |-> a.current_to_write])

-----------------------------------------------------------------------------
(* build_conditions *)

Condition(next_state_index, test_ezl, pass_commands, subconditions) ==
    [next_state |-> next_state_index, test |-> test_ezl,
     pass_commands |-> pass_commands, subconditions |-> subconditions]

\* name in self.state_info, and self.state_info[name]
InStateInfo(info, name) == \E k \in 1..Len(info) : info[k].name = name
StateInfoOf(info, name) == info[CHOOSE k \in 1..Len(info) : info[k].name = name]

\* Faulty variant of lone_return: the value is read as in the body of an If
lone_return_of_name(value, info) ==
    IF value.type # "Name"
    THEN [err |-> "ESDSyntaxError:should_return_state_name", conditions |-> <<>>]
    ELSE IF ~InStateInfo(info, value.id)
    THEN [err |-> "ESDError:no_such_state", conditions |-> <<>>]
    ELSE [err |-> "", conditions |->
             <<Condition(StateInfoOf(info, value.id).index, <<65, 161>>, <<>>, <<>>)>>]

\* The lone-return case of build_conditions: the Condition list, or the error
lone_return(value, info) ==
    IF value.type = "UnaryOp"
    THEN IF value.op = "USub" /\ value.operand.type = "Constant" /\ value.operand.value = 1
         THEN [err |-> "", conditions |-> <<Condition(-1, <<65, 161>>, <<>>, <<>>)>>]
         ELSE [err |-> "ESDSyntaxError:next_state_must_be_state_or_minus_one",
               conditions |-> <<>>]
    ELSE IF value.type # "Name"
    THEN [err |-> "ESDSyntaxError:should_return_state_name", conditions |-> <<>>]
    ELSE IF ~InStateInfo(info, value.id)
    THEN [err |-> "ESDError:no_such_state", conditions |-> <<>>]
    ELSE [err |-> "", conditions |->
             <<Condition(StateInfoOf(info, value.id).index, <<65, 161>>, <<>>, <<>>)>>]

\* The If that build_conditions appends for the else of the last node
else_node(node) == If(Constant(1), node.orelse, <<>>)

\* Faulty variant of else_is_last: an else is taken wherever it stands
else_anywhere(i, if_nodes) == TRUE

\* `if i != len(if_nodes) - 1: raise` for a node with an else (i is 1-based here)
else_is_last(i, if_nodes) == i = Len(if_nodes)

\* The first loop of build_conditions: every node an If, an else only on the
\* last one, which appends the always-true If to if_nodes itself
RECURSIVE rewrite_else(_, _)
rewrite_else(if_nodes, i) ==
    IF i > Len(if_nodes) THEN [err |-> "", if_nodes |-> if_nodes]
    ELSE IF if_nodes[i].type # "If"
    THEN [err |-> "ESDSyntaxError:only_if_blocks", if_nodes |-> if_nodes]
    ELSE IF if_nodes[i].orelse # <<>>
    THEN IF ~else_is_last(i, if_nodes)
         THEN [err |-> "ESDSyntaxError:else_not_last", if_nodes |-> if_nodes]
         ELSE rewrite_else(Append(if_nodes, else_node(if_nodes[i])), i + 1)
    ELSE rewrite_else(if_nodes, i + 1)

\* The value of a Return inside an IF block
return_state(value, info) ==
    IF value.type = "Constant" /\ value.value = -1
    THEN [err |-> "", next_state |-> -1]
    ELSE IF value.type # "Name"
    THEN [err |-> "ESDSyntaxError:should_return_state_name", next_state |-> -1]
    ELSE IF ~InStateInfo(info, value.id)
    THEN [err |-> "ESDError:no_such_state", next_state |-> -1]
    ELSE [err |-> "", next_state |-> StateInfoOf(info, value.id).index]

\* pass_commands.append(self.build_command(node)), c being build_command's result
body_command(acc, c) ==
    [acc EXCEPT !.err = c.err,
                !.pass_commands = IF c.err = "" THEN Append(@, c.command) ELSE @,
                !.registers = c.registers,
                !.current_to_write = c.current_to_write]

\* The Return branch of the body loop, r being the returned state
body_return(acc, r) == [acc EXCEPT !.err = r.err, !.next_state_index = r.next_state]

\* Faulty variant of body_subcondition: pass commands stay allowed
body_subcondition_keeps_commands(acc, node) ==
    [acc EXCEPT !.subcondition_nodes = Append(@, node)]

\* The If branch of the body loop: a subcondition ends the pass commands
body_subcondition(acc, node) ==
    [acc EXCEPT !.pass_commands_allowed = FALSE,
                !.subcondition_nodes = Append(@, node)]

\* `if j != len(if_node.body) - 1: raise` (j is 1-based here)
return_is_last(j, body) == j = Len(body)

\* for j, node in enumerate(if_node.body), from statement j (1-based) on
RECURSIVE build_body(_, _, _, _)
build_body(body, j, info, acc) ==
    IF acc.err # "" \/ j > Len(body) THEN acc
    ELSE IF is_call(body[j])
    THEN IF ~acc.pass_commands_allowed
         THEN [acc EXCEPT !.err = "ESDSyntaxError:pass_command_out_of_order"]
         ELSE With(body_command(acc, build_command(body[j], acc.registers,
                                                   acc.current_to_write)),
                   LAMBDA next : build_body(body, j + 1, info, next))
    ELSE IF body[j].type = "If"
    THEN IF ~acc.subconditions_allowed
         THEN [acc EXCEPT !.err = "ESDSyntaxError:subcondition_out_of_order"]
         ELSE build_body(body, j + 1, info, body_subcondition(acc, body[j]))
    ELSE IF body[j].type = "Return"
    THEN IF ~return_is_last(j, body)
         THEN [acc EXCEPT !.err = "ESDSyntaxError:return_not_last"]
         ELSE body_return(acc, return_state(body[j].value, info))
    ELSE build_body(body, j + 1, info, acc)

\* The locals of one iteration of `for if_node in if_nodes` once the test, t, is compiled
node_locals(t) ==
    [err |-> t.err, test_ezl |-> t.bytes \o <<161>>,
     pass_commands |-> <<>>, subcondition_nodes |-> <<>>, next_state_index |-> -1,
     pass_commands_allowed |-> TRUE, subconditions_allowed |-> TRUE,
     registers |-> t.registers, current_to_write |-> t.current_to_write]

\* One iteration of `for if_node in if_nodes` up to the recursive call:
\* the dequeued list is ctw, the registers are regs
build_if_node(if_node, info, regs, ctw) ==
    With(node_locals(compile_ezl(if_node.test, regs, ctw)),
         LAMBDA start : build_body(if_node.body, 1, info, start))

-----------------------------------------------------------------------------
(* The scripts compiled *)

callA == Call("A", <<>>)
callB == Call("B", <<>>)
callF1 == Call("F", <<Constant(1)>>)
Cmd == Expr(Call("Cmd", <<Constant(5)>>))

\* Sequences over S of length lo..hi
SeqsOf(S, lo, hi) == UNION { [1..n -> S] : n \in lo..hi }

ChainOperands == {callA, callB}
Chains == { BoolOp(op, vs) : op \in {"And", "Or"}, vs \in SeqsOf(ChainOperands, 2, MaxChain) }
LongChain == BoolOp("And", [k \in 1..(MaxChain + 1) |-> callF1])
TestExprs ==
    {callA, callB, callF1, UnaryOp("Not", callA), Constant(1), Name("ONGOING"), LongChain}
        \cup Chains
        \cup {BoolOp("And", <<callF1, callA>>), BoolOp("And", <<callF1, callF1>>)}

ReturnValues == {Name("End"), Name("S1"), Name("Nope"), MinusOne, Constant(0)}
SubIfs ==
    { If(callF1, <<Return(Name("End"))>>, <<>>),
      If(callB, <<Cmd>>, <<Return(Name("End"))>>) }
BodyStatements == {Cmd, Pass} \cup { Return(v) : v \in {Name("End"), MinusOne} } \cup SubIfs
Bodies == SeqsOf(BodyStatements, 1, 3) \cup { <<Return(v)>> : v \in ReturnValues }

\* if F(1): ...   (the first node of most test blocks)
Leaf(test) == If(test, <<Return(Name("End"))>>, <<>>)
Nest(test, subs) == If(test, subs, <<>>)

\* Test blocks of one state: one aspect varied at a time
ExprBlocks == { <<Leaf(t)>> : t \in TestExprs }
BodyBlocks == { <<If(callA, b, <<>>)>> : b \in Bodies }
ElseBlocks ==
    { <<If(callF1, <<Return(Name("End"))>>, e1), If(t, <<Cmd>>, e2)>> :
        e1 \in {<<>>, <<Return(MinusOne)>>},
        e2 \in {<<>>, <<Return(Name("End"))>>, <<Cmd, Return(Name("End"))>>,
                <<If(callF1, <<Return(Name("End"))>>, <<Return(Name("End"))>>)>>},
        t \in {callA, callF1} }
NestBlocks ==
    { <<Nest(t1, <<If(t2, <<Leaf(t3)>>, e)>>), Leaf(t4)>> :
        t1 \in {callA, callF1}, t2 \in {callB, callF1}, t3 \in {callF1},
        t4 \in {callF1, BoolOp("And", <<callA, callB>>)},
        e \in {<<>>, <<Return(Name("End"))>>} }
LoneBlocks == { <<Return(v)>> : v \in ReturnValues } \cup {<<Cmd>>, <<Return(MinusOne), Return(MinusOne)>>}
TestBlocks == ExprBlocks \cup BodyBlocks \cup ElseBlocks \cup NestBlocks \cup LoneBlocks

\* Test blocks for the scripts of several states
SmallBlocks ==
    { <<Leaf(callF1)>>,
      <<Leaf(callA), Leaf(callF1)>>,
      <<Leaf(BoolOp("And", <<callA, callB>>))>>,
      <<Leaf(BoolOp("And", <<callF1, callF1, callF1>>))>>,
      <<Leaf(callF1), Leaf(callF1), Leaf(callF1)>>,
      <<Nest(callA, <<Leaf(callF1)>>)>>,
      <<Nest(LongChain, <<Leaf(LongChain)>>)>>,
      <<Nest(callF1, <<If(callB, <<Cmd>>, <<Return(Name("End"))>>)>>), Leaf(callF1)>>,
      <<If(callB, <<Cmd>>, <<Return(MinusOne)>>)>>,
      <<Return(Name("End"))>> }

\* A docstring is what _STATE_DOCSTRING_RE makes of it
Docstring(k) == [kind |-> "match", index |-> k]
StateName(k) == <<"S0", "S1", "S2", "S3", "S4">>[k + 1]
StateClass(k, block) == ClassDef(StateName(k), Docstring(k), <<FunctionDef("test", block)>>)
EndClass == ClassDef("End", Docstring(9), <<FunctionDef("test", <<Return(MinusOne)>>)>>)

\* Two state classes with the same index, or with the same name
DupBlocks == { <<Leaf(callA)>>, <<Leaf(callB)>>, <<Return(Name("End"))>> }
DupScripts ==
    { <<StateClass(0, b1), ClassDef(StateName(d[1]), Docstring(d[2]), <<FunctionDef("test", b2)>>),
        EndClass>> :
        b1 \in DupBlocks, b2 \in DupBlocks, d \in {<<1, 0>>, <<0, 1>>, <<1, 1>>} }

\* The members of a state class
Members ==
    { FunctionDef("test", <<Leaf(callA)>>), FunctionDef("test", <<Return(MinusOne)>>),
      FunctionDef("enter", <<Cmd>>), FunctionDef("enter", <<Pass>>),
      FunctionDef("exit", <<Cmd, Cmd>>), FunctionDef("ongoing", <<Cmd>>),
      FunctionDef("previous_states", <<Pass>>), FunctionDef("other", <<Pass>>), Pass }
MemberScripts ==
    { <<ClassDef("S0", Docstring(0), ms), EndClass>> : ms \in SeqsOf(Members, 1, MaxMembers) }

\* An integer literal as the parser makes it
Literal(n) == IF n < 0 THEN UnaryOp("USub", Constant(0 - n)) ELSE Constant(n)
Numbers ==
    (-70..70) \cup (120..135) \cup (250..260)
        \cup { 65535, 65536, 16777215, 16777216, 2147483647 }
        \cup { -128, -129, -255, -256, -257, -65536, -16777216, -16777217, -2147483647 }
NumberScripts ==
    { <<ClassDef("S0", Docstring(0),
                 <<FunctionDef("enter", <<Expr(Call("Cmd", <<Literal(n)>>))>>),
                   FunctionDef("test", <<Leaf(Call("F", <<Literal(n)>>))>>)>>),
        EndClass>> : n \in Numbers }

Scripts ==
    { <<StateClass(0, b), EndClass>> : b \in TestBlocks }
        \cup DupScripts \cup MemberScripts \cup NumberScripts
        \cup { [k \in 1..(Len(bs) + 1) |->
                    IF k <= Len(bs) THEN StateClass(k - 1, bs[k]) ELSE EndClass] :
                 bs \in SeqsOf(SmallBlocks, 2, MaxStates) }

-----------------------------------------------------------------------------
(* compile_script as a state machine *)

EmptyRegisters == [i \in 1..NumRegisters |-> <<>>]
NoCallee == [if_nodes |-> <<>>, path |-> <<>>, top |-> FALSE]
NoLocals == [index |-> -1, conditions |-> <<>>, enter_commands |-> <<>>,
             exit_commands |-> <<>>, ongoing_commands |-> <<>>]

\* __init__: the register context of a new compiler, and the parsed script
Init ==
    /\ script \in Scripts
    /\ tree = script
    /\ previous = [run |-> 1, states |-> <<>>]
    /\ pc = "scan"
    /\ err = ""
    /\ scan_i = 0
    /\ state_info = <<>>
    /\ states = <<>>
    /\ build_i = 0
    /\ member_i = 0
    /\ cur = NoLocals
    /\ stack = <<>>
    /\ callee = NoCallee
    /\ registers = EmptyRegisters
    /\ state_call_set = {}
    /\ to_write_count = 0
    /\ to_write = <<>>
    /\ current_to_write = <<>>
    /\ to_write_node = <<>>
    /\ node_log = <<>>

\* raise: compile_script ends with the exception e
Raise(e) == pc' = "error" /\ err' = e

\* d[key] = value on an insertion-ordered dict held as a sequence of entries
DictSet(d, key_field, entry) ==
    IF \E k \in 1..Len(d) : d[k][key_field] = entry[key_field]
    THEN [k \in 1..Len(d) |-> IF d[k][key_field] = entry[key_field] THEN entry ELSE d[k]]
    ELSE Append(d, entry)

\* scan_state on the next ClassDef of the script (first loop of compile_script)
ScanState ==
    /\ pc = "scan"
    /\ scan_i < Len(tree)
    /\ LET node == tree[scan_i + 1]
       IN  IF node.docstring.kind = "none"
           THEN /\ Raise("ESDSyntaxError:no_docstring")
                /\ UNCHANGED <<scan_i, state_info>>
           ELSE IF node.docstring.kind # "match"
           THEN /\ Raise("ESDSyntaxError:invalid_docstring")
                /\ UNCHANGED <<scan_i, state_info>>
           ELSE /\ state_info' = DictSet(state_info, "name",
                                    [name |-> node.name, index |-> node.docstring.index,
                                     class |-> scan_i + 1])
                /\ scan_i' = scan_i + 1
                /\ pc' = IF scan_i + 1 = Len(tree) THEN "build" ELSE "scan"
                /\ err' = err
    /\ UNCHANGED <<script, previous, tree, states, build_i, member_i, cur, stack, callee, registers,
                   state_call_set, to_write_count, to_write, current_to_write,
                   to_write_node, node_log>>

\* The member nodes of the state build_state is working on: state["nodes"]
CurrentNodes == tree[state_info[build_i + 1].class].body

\* build_state is entered for the next entry of state_info
BuildState ==
    /\ pc = "build"
    /\ build_i < Len(state_info)
    /\ cur' = [NoLocals EXCEPT !.index = state_info[build_i + 1].index]
    /\ member_i' = 0
    /\ pc' = "member"
    /\ UNCHANGED <<script, previous, tree, err, scan_i, state_info, states, build_i, stack, callee, registers,
                   state_call_set, to_write_count, to_write, current_to_write,
                   to_write_node, node_log>>

\* [self.build_command(command_node) for command_node in node.body]
RECURSIVE build_commands(_, _, _, _)
build_commands(body, acc, regs, ctw) ==
    IF body = <<>>
    THEN [err |-> "", commands |-> acc, registers |-> regs, current_to_write |-> ctw]
    ELSE With(build_command(Head(body), regs, ctw), LAMBDA c :
             IF c.err # ""
             THEN [err |-> c.err, commands |-> acc, registers |-> c.registers,
                   current_to_write |-> c.current_to_write]
             ELSE build_commands(Tail(body), Append(acc, c.command),
                                 c.registers, c.current_to_write))

\* The commands field of build_state's locals that a member name fills
CommandsField(name) ==
    IF name = "enter" THEN "enter_commands"
    ELSE IF name = "exit" THEN "exit_commands" ELSE "ongoing_commands"

\* Faulty variant of already_defined: an earlier block is never noticed
never_defined(block) == FALSE

\* `if conditions:`, `if enter_commands:` ...: the block was filled before
already_defined(block) == block # <<>>

\* One iteration of `for node in nodes` of build_state; a test member starts
\* the call build_conditions(node.body)
BuildMember ==
    /\ pc = "member"
    /\ member_i < Len(CurrentNodes)
    /\ LET node == CurrentNodes[member_i + 1]
       IN  IF node.type # "FunctionDef"
           THEN /\ Raise("ESDSyntaxError:non_function_in_state")
                /\ UNCHANGED <<member_i, cur, callee, registers, current_to_write, node_log>>
           ELSE IF node.name = "previous_states"
           THEN /\ member_i' = member_i + 1
                /\ UNCHANGED <<pc, err, cur, callee, registers, current_to_write, node_log>>
           ELSE IF node.name = "test"
           THEN IF already_defined(cur.conditions)
                THEN /\ Raise("ESDSyntaxError:test_defined_more_than_once")
                     /\ UNCHANGED <<member_i, cur, callee, registers, current_to_write, node_log>>
                ELSE /\ callee' = [if_nodes |-> node.body,
                                   path |-> <<state_info[build_i + 1].class>>, top |-> TRUE]
                     /\ pc' = "call"
                     /\ node_log' = <<>>
                     /\ UNCHANGED <<err, member_i, cur, registers, current_to_write>>
           ELSE IF node.name \in {"enter", "exit", "ongoing"}
           THEN IF already_defined(cur[CommandsField(node.name)])
                THEN /\ Raise("ESDSyntaxError:commands_defined_more_than_once")
                     /\ UNCHANGED <<member_i, cur, callee, registers, current_to_write, node_log>>
                ELSE \E c \in {build_commands(node.body, <<>>, registers, current_to_write)} :
                         /\ registers' = c.registers
                         /\ current_to_write' = c.current_to_write
                         /\ IF c.err # ""
                            THEN Raise(c.err) /\ UNCHANGED <<member_i, cur>>
                            ELSE /\ cur' = [cur EXCEPT ![CommandsField(node.name)] = c.commands]
                                 /\ member_i' = member_i + 1
                                 /\ UNCHANGED <<pc, err>>
                         /\ UNCHANGED <<callee, node_log>>
           ELSE /\ Raise("AttributeError:unexpected_state_function")
                /\ UNCHANGED <<member_i, cur, callee, registers, current_to_write, node_log>>
    /\ UNCHANGED <<script, previous, tree, scan_i, state_info, states, build_i, stack,
                   state_call_set, to_write_count, to_write, to_write_node>>

\* build_conditions returns `conditions` to its caller: the enclosing
\* build_conditions (callers, innermost last), which appends the Condition of
\* the node it was building, or build_state
ReturnTo(callers, conditions) ==
    IF callers = <<>>
    THEN /\ cur' = [cur EXCEPT !.conditions = conditions]
         /\ member_i' = member_i + 1
         /\ pc' = "member"
         /\ stack' = <<>>
    ELSE LET f == callers[Len(callers)]
         IN  /\ stack' = [callers EXCEPT ![Len(callers)] =
                            [f EXCEPT !.conditions =
                                          Append(@, Condition(f.pend.next_state_index,
                                                              f.pend.test_ezl,
                                                              f.pend.pass_commands,
                                                              conditions)),
                                      !.i = @ + 1]]
             /\ pc' = "node"
             /\ UNCHANGED <<cur, member_i>>

NoPend == [next_state_index |-> -1, test_ezl |-> <<>>, pass_commands |-> <<>>]

\* build_conditions(if_nodes) up to its second loop: the lone return, the else
\* rewrite (which appends to the caller's list) and plan_condition_registers
CallBuildConditions ==
    /\ pc = "call"
    /\ LET if_nodes == callee.if_nodes
       IN  IF Len(if_nodes) = 1 /\ if_nodes[1].type = "Return"
           THEN \E r \in {lone_return(if_nodes[1].value, state_info)} :
                    /\ IF r.err # ""
                       THEN Raise(r.err) /\ UNCHANGED <<cur, member_i, stack>>
                       ELSE ReturnTo(stack, r.conditions) /\ err' = err
                    /\ UNCHANGED <<tree, state_call_set, to_write_count, to_write, to_write_node>>
           ELSE \E rw \in {rewrite_else(if_nodes, 1)} :
                    IF rw.err # ""
                    THEN /\ Raise(rw.err)
                         /\ UNCHANGED <<tree, cur, member_i, stack, state_call_set,
                                        to_write_count, to_write, to_write_node>>
                    ELSE \E p \in {plan_condition_registers(
                                       rw.if_nodes, 1, callee.path,
                                       PlanCtx(state_call_set, to_write_count, to_write,
                                               to_write_node, ""))} :
                             /\ tree' = IF callee.top
                                        THEN [tree EXCEPT ![callee.path[1]].body[member_i + 1].body
                                                              = rw.if_nodes]
                                        ELSE tree
                             /\ state_call_set' = p.state_call_set
                             /\ to_write_count' = p.to_write_count
                             /\ to_write' = p.to_write
                             /\ to_write_node' = p.to_write_node
                             /\ UNCHANGED <<cur, member_i>>
                             /\ IF p.err # ""
                                THEN Raise(p.err) /\ UNCHANGED stack
                                ELSE /\ stack' = Append(stack,
                                            [if_nodes |-> rw.if_nodes, i |-> 1,
                                             conditions |-> <<>>, path |-> callee.path,
                                             pend |-> NoPend])
                                     /\ pc' = "node"
                                     /\ err' = err
    /\ callee' = NoCallee
    /\ UNCHANGED <<script, previous, scan_i, state_info, states, build_i, registers, current_to_write,
                   node_log>>

\* One iteration of `for if_node in if_nodes`: the dequeue (which waits while
\* the queue is empty), the test, the body, and either the Condition or the
\* call that builds the subconditions
BuildIfNode ==
    /\ pc = "node"
    /\ stack[Len(stack)].i <= Len(stack[Len(stack)].if_nodes)
    /\ to_write # <<>>
    /\ LET f == stack[Len(stack)]
           if_node == f.if_nodes[f.i]
       IN  \E b \in {build_if_node(if_node, state_info, registers, Head(to_write))} :
           /\ to_write' = Tail(to_write)
           /\ to_write_node' = Tail(to_write_node)
           /\ registers' = b.registers
           /\ current_to_write' = b.current_to_write
           /\ node_log' = Append(node_log,
                                 [node |-> Append(f.path, f.i),
                                  planned_for |-> Head(to_write_node),
                                  to_write |-> Head(to_write),
                                  if_node |-> if_node,
                                  err |-> b.err,
                                  test_ezl |-> b.test_ezl,
                                  next_state_index |-> b.next_state_index,
                                  pass_commands |-> b.pass_commands,
                                  registers |-> b.registers,
                                  current_to_write |-> b.current_to_write])
           /\ IF b.err # ""
              THEN Raise(b.err) /\ UNCHANGED <<stack, callee>>
              ELSE IF b.subcondition_nodes # <<>>
              THEN /\ stack' = [stack EXCEPT ![Len(stack)].pend =
                                   [next_state_index |-> b.next_state_index,
                                    test_ezl |-> b.test_ezl,
                                    pass_commands |-> b.pass_commands]]
                   /\ callee' = [if_nodes |-> b.subcondition_nodes,
                                 path |-> Append(f.path, f.i), top |-> FALSE]
                   /\ pc' = "call"
                   /\ err' = err
              ELSE /\ stack' = [stack EXCEPT ![Len(stack)] =
                                   [f EXCEPT !.conditions =
                                                 Append(@, Condition(b.next_state_index,
                                                                     b.test_ezl,
                                                                     b.pass_commands, <<>>)),
                                             !.i = @ + 1]]
                   /\ UNCHANGED <<pc, err, callee>>
    /\ UNCHANGED <<script, previous, tree, scan_i, state_info, states, build_i, member_i, cur,
                   state_call_set, to_write_count>>

\* `return conditions` of build_conditions
ReturnConditions ==
    /\ pc = "node"
    /\ stack[Len(stack)].i > Len(stack[Len(stack)].if_nodes)
    /\ ReturnTo(SubSeq(stack, 1, Len(stack) - 1), stack[Len(stack)].conditions)
    /\ UNCHANGED <<script, previous, tree, err, scan_i, state_info, states, build_i, callee, registers,
                   state_call_set, to_write_count, to_write, current_to_write,
                   to_write_node, node_log>>

State(index, conditions, enter_commands, exit_commands, ongoing_commands) ==
    [index |-> index, conditions |-> conditions, enter_commands |-> enter_commands,
     exit_commands |-> exit_commands, ongoing_commands |-> ongoing_commands]

\* build_state returns and compile_script stores the State under its index
StoreState ==
    /\ pc = "member"
    /\ member_i = Len(CurrentNodes)
    /\ states' = DictSet(states, "index",
                     State(cur.index, cur.conditions, cur.enter_commands,
                           cur.exit_commands, cur.ongoing_commands))
    /\ build_i' = build_i + 1
    /\ pc' = "build"
    /\ UNCHANGED <<script, previous, tree, err, scan_i, state_info, member_i, cur, stack, callee, registers,
                   state_call_set, to_write_count, to_write, current_to_write,
                   to_write_node, node_log>>

\* The second loop of compile_script is over
Finish ==
    /\ pc = "build"
    /\ build_i = Len(state_info)
    /\ pc' = "done"
    /\ UNCHANGED <<script, previous, tree, err, scan_i, state_info, states, build_i, member_i, cur, stack,
                   callee, registers, state_call_set, to_write_count, to_write,
                   current_to_write, to_write_node, node_log>>

Next ==
    \/ ScanState
    \/ BuildState
    \/ BuildMember
    \/ CallBuildConditions
    \/ BuildIfNode
    \/ ReturnConditions
    \/ StoreState
    \/ Finish

Spec == Init /\ [][Next]_vars

\* The compiler is one thread that runs until it returns or raises
FairSpec == Spec /\ WF_vars(Next)

\* reset_condition_registers() and compile_script() once more on the compiler
\* that has compiled its script: the same tree, state_info and states
Recompile ==
    /\ pc = "done"
    /\ previous.run = 1
    /\ previous' = [run |-> 2, states |-> states]
    /\ registers' = EmptyRegisters
    /\ state_call_set' = {}
    /\ to_write_count' = 0
    /\ to_write' = <<>>
    /\ to_write_node' = <<>>
    /\ current_to_write' = <<>>
    /\ scan_i' = 0
    /\ build_i' = 0
    /\ pc' = "scan"
    /\ UNCHANGED <<script, tree, err, state_info, states, member_i, cur, stack, callee,
                   node_log>>

NextAgain ==
    \/ Next
    \/ Recompile

SpecAgain == Init /\ [][NextAgain]_vars

-----------------------------------------------------------------------------
(* Properties: the register context *)

\* The state build_state is working on; its ClassDef as parsed; its test block
Building == pc \in {"member", "call", "node", "error"} /\ build_i < Len(state_info)
InTestBlock ==
    /\ Building
    /\ member_i < Len(CurrentNodes)
    /\ CurrentNodes[member_i + 1].type = "FunctionDef"
    /\ CurrentNodes[member_i + 1].name = "test"
ParsedTest == script[state_info[build_i + 1].class].body[member_i + 1].body

\* The first state of the script is being built: nothing was compiled before it
FirstState == Building /\ build_i = 0

\* The condition nodes of a statement list: its If statements, then the
\* always-true node of the else of the last one
ConditionNodes(statements) ==
    With(SelectSeq(statements, LAMBDA n : n.type = "If"), LAMBDA ifs :
        IF ifs # <<>> /\ ifs[Len(ifs)].orelse # <<>>
        THEN Append(ifs, If(Constant(1), ifs[Len(ifs)].orelse, <<>>))
        ELSE ifs)

\* The call signatures of a list of condition nodes, depth first
RECURSIVE TreeCalls(_)
TreeCalls(nodes) ==
    IF nodes = <<>> THEN <<>>
    ELSE get_calls(Head(nodes).test).calls
             \o TreeCalls(ConditionNodes(Head(nodes).body))
             \o TreeCalls(Tail(nodes))

\* The distinct signatures of a traversal that occur a second time, in the
\* order of their second occurrence, up to the number of registers
RECURSIVE RepeatedFirst(_, _, _)
RepeatedFirst(calls, seen, queued) ==
    IF calls = <<>> THEN queued
    ELSE IF Head(calls) \notin seen
    THEN RepeatedFirst(Tail(calls), seen \cup {Head(calls)}, queued)
    ELSE IF ~InSeq(Head(calls), queued) /\ Len(queued) < NumRegisters
    THEN RepeatedFirst(Tail(calls), seen, Append(queued, Head(calls)))
    ELSE RepeatedFirst(Tail(calls), seen, queued)

\* The signatures of the nodes build_conditions has visited, up to the k-th
RECURSIVE VisitedCalls(_)
VisitedCalls(k) ==
    IF k = 0 THEN <<>>
    ELSE VisitedCalls(k - 1) \o get_calls(node_log[k].if_node.test).calls

\* A register holds the signature of the planner's key c
Holds(regs, c) ==
    \E slot \in 1..NumRegisters :
        regs[slot] \in {c, compiler_call(TEST_FUNCTIONS_ID[c[1][2]], c[2])}

RegistersBefore(k) == IF k = 1 THEN EmptyRegisters ELSE node_log[k - 1].registers

(* C1: when the compilation of a state's test block starts, the register
   context is fresh, however many states were compiled before it: the eight
   registers are empty, the seen-call set is empty, the budget counter is 0
   and the pending-write queue is empty. *)
C1_FreshContextPerState ==
    (pc = "call" /\ callee.top) =>
        /\ registers = EmptyRegisters
        /\ state_call_set = {}
        /\ to_write_count = 0
        /\ to_write = <<>>

(* C2: the planner makes one queue entry per condition node of a state's test
   tree, build_conditions dequeues for each node it visits the entry made for
   that node, and the queue is empty once the tree is built. *)
C2_QueueFollowsTheTree ==
    /\ \A k \in 1..Len(node_log) : node_log[k].planned_for = node_log[k].node
    /\ (pc = "member" /\ cur.conditions # <<>> /\ node_log # <<>>) => to_write = <<>>

(* C3: the budget counter and the occupied registers never exceed 8, and a
   signature entitled to a register is in one once the node of its second
   occurrence is compiled, and in none before that node. *)
C3_WrittenAtSecondOccurrence ==
    /\ to_write_count <= NumRegisters
    /\ Cardinality({ slot \in 1..NumRegisters : registers[slot] # <<>> }) <= NumRegisters
    /\ FirstState =>
           \A k \in 1..Len(node_log) :
               node_log[k].err = "" =>
                   \A c \in { VisitedCalls(Len(node_log))[j] : j \in 1..Len(VisitedCalls(Len(node_log))) } :
                       Holds(node_log[k].registers, c)
                           <=> InSeq(c, RepeatedFirst(VisitedCalls(k), {}, <<>>))

(* C4: right after the planner ran over the test tree of a state, the queued
   signatures are the first 8 distinct signatures that occur a second time in
   depth-first order, each queued once, and the budget counter is their number. *)
C4_QueuedOncePerRepeatedSignature ==
    (FirstState /\ pc = "node" /\ Len(stack) = 1 /\ stack[1].i = 1) =>
        /\ Flatten(to_write) = RepeatedFirst(TreeCalls(ConditionNodes(ParsedTest)), {}, <<>>)
        /\ to_write_count = Len(Flatten(to_write))

(* C5: F(1) tested at several condition nodes, the registers empty: the first
   node has the full call encoding and no store; the node the planner queued
   it for has the full encoding then the store opcode 167, F(1) is put in
   slot 0 and leaves the pending list; later nodes have the load byte 175. *)
C5_StoreThenLoad ==
    FirstState =>
        \A k \in 1..Len(node_log) :
            node_log[k].if_node.test = callF1 =>
                IF RegistersBefore(k)[1] = compiler_call(TEST_FUNCTIONS_ID["F"], <<1>>)
                THEN node_log[k].test_ezl = <<175, 161>>
                ELSE IF InSeq(planner_call("F", <<1>>), node_log[k].to_write)
                          /\ RegistersBefore(k) = EmptyRegisters
                THEN /\ node_log[k].test_ezl =
                            compile_number(TEST_FUNCTIONS_ID["F"]) \o compile_number(1)
                                \o FUNCTION_ARG_BYTES(1) \o <<167, 161>>
                     /\ Holds(node_log[k].registers, planner_call("F", <<1>>))
                     /\ ~InSeq(planner_call("F", <<1>>), node_log[k].current_to_write)
                ELSE node_log[k].test_ezl =
                         compile_number(TEST_FUNCTIONS_ID["F"]) \o compile_number(1)
                             \o FUNCTION_ARG_BYTES(1) \o <<161>>

-----------------------------------------------------------------------------
(* Properties: boolean chains *)

HasPrefix(bytes, p) == Len(p) <= Len(bytes) /\ SubSeq(bytes, 1, Len(p)) = p

\* The encodings of a call operand: the full call, the full call and a store
\* into a register, or the load of a register
OperandEncodings(call) ==
    With(compile_number(TEST_FUNCTIONS_ID[call.func])
             \o Flatten([k \in 1..Len(call.args) |-> compile_number(call.args[k].value)])
             \o FUNCTION_ARG_BYTES(Len(call.args)),
         LAMBDA full :
             {full} \cup { full \o <<167 + slot>> : slot \in 0..(NumRegisters - 1) }
                    \cup { <<175 + slot>> : slot \in 0..(NumRegisters - 1) })

\* The terminators a chain operand may have, given the pending list dequeued
\* for the node and the pending list left when the node is compiled (the
\* list only shrinks in between)
Terminators(op, dequeued, left) ==
    IF op = "Or" THEN {166}
    ELSE IF dequeued = <<>> THEN {183}
    ELSE IF left # <<>> THEN {166}
    ELSE {166, 183}

\* bytes is operand i and the operands after it, each with its terminator and,
\* after the first, its combinator, and then the end byte of the test
RECURSIVE ChainFrom(_, _, _, _, _)
ChainFrom(bytes, values, i, terms, comb) ==
    IF i > Len(values) THEN bytes = <<161>>
    ELSE \E enc \in OperandEncodings(values[i]), term \in terms :
             With(enc \o <<term>> \o (IF i > 1 THEN <<comb>> ELSE <<>>), LAMBDA part :
                 /\ HasPrefix(bytes, part)
                 /\ ChainFrom(SubSeq(bytes, Len(part) + 1, Len(bytes)), values, i + 1,
                              terms, comb))

IsChain(test) ==
    /\ test.type = "BoolOp"
    /\ \A i \in 1..Len(test.values) : test.values[i].type = "Call"

AandB == BoolOp("And", <<callA, callB>>)

(* C6: a boolean chain compiles to its operands in order, each followed by a
   terminator (0xB7 in an AND chain while the node's pending list is empty,
   else 0xA6; always 0xA6 in an OR chain) and each after the first by 0x98
   (AND) or 0x99 (OR); `if A() and B(): return S` with nothing pending and
   nothing in the registers stores nothing, has 0xB7 after both operands, ends
   with 0x98, and its next state is the index of S. *)
C6_BooleanChainBytes ==
    \A k \in 1..Len(node_log) :
        /\ IsChain(node_log[k].if_node.test) =>
               ChainFrom(node_log[k].test_ezl, node_log[k].if_node.test.values, 1,
                         Terminators(node_log[k].if_node.test.op, node_log[k].to_write,
                                     node_log[k].current_to_write),
                         IF node_log[k].if_node.test.op = "And" THEN 152 ELSE 153)
        /\ ( /\ node_log[k].if_node.test = AandB
             /\ node_log[k].to_write = <<>>
             /\ RegistersBefore(k) = EmptyRegisters ) =>
               /\ node_log[k].test_ezl = <<65, 132, 183, 66, 132, 183, 152, 161>>
               /\ node_log[k].registers = EmptyRegisters
               /\ ( /\ Len(node_log[k].if_node.body) = 1
                    /\ node_log[k].if_node.body[1].type = "Return"
                    /\ node_log[k].if_node.body[1].value.type = "Name"
                    /\ InStateInfo(state_info, node_log[k].if_node.body[1].value.id) ) =>
                      /\ node_log[k].err = ""
                      /\ node_log[k].next_state_index =
                             StateInfoOf(state_info, node_log[k].if_node.body[1].value.id).index

\* `if A() and B(): return End` is compiled in the first state
C6_Witness ==
    /\ FirstState
    /\ \E k \in 1..Len(node_log) :
           /\ node_log[k].if_node = Leaf(AandB)
           /\ node_log[k].to_write = <<>>
           /\ node_log[k].next_state_index = 9

-----------------------------------------------------------------------------
(* Properties: the body of a conditional block *)

IsCommand(node) == is_call(node) \/ node.type = "Pass"

(* C7: in a conditional block the final return decides the next state:
   `return -1` gives -1, the name of a declared state gives its index, an
   undeclared name is an error, and a body without a return gives -1. *)
C7_ReturnDecidesNextState ==
    \A k \in 1..Len(node_log) :
        LET e == node_log[k]
            body == e.if_node.body
            last == body[Len(body)]
        IN  ( /\ e.if_node.test.type = "Call"
              /\ body # <<>>
              /\ \A j \in 1..(Len(body) - 1) : IsCommand(body[j]) ) =>
                IF IsCommand(last) THEN e.err = "" /\ e.next_state_index = -1
                ELSE IF last.type # "Return" THEN TRUE
                ELSE IF last.value = MinusOne THEN e.err = "" /\ e.next_state_index = -1
                ELSE IF last.value.type # "Name" THEN TRUE
                ELSE IF InStateInfo(state_info, last.value.id)
                THEN e.err = ""
                         /\ e.next_state_index = StateInfoOf(state_info, last.value.id).index
                ELSE e.err # ""

\* A body of commands, then conditional blocks, then at most one return of a
\* declared state, in the blocks below it as well; no else anywhere
RECURSIVE Orderly(_)
Orderly(nodes) ==
    \A n \in 1..Len(nodes) :
        /\ nodes[n].type = "If"
        /\ nodes[n].test.type = "Call"
        /\ nodes[n].orelse = <<>>
        /\ \A i, j \in 1..Len(nodes[n].body) :
               i < j =>
                   /\ nodes[n].body[i].type # "Return"
                   /\ nodes[n].body[i].type = "If" => nodes[n].body[j].type # "Expr"
        /\ \A i \in 1..Len(nodes[n].body) :
               /\ nodes[n].body[i].type \in {"Expr", "If", "Return"}
               /\ nodes[n].body[i].type = "Expr" => is_call(nodes[n].body[i])
               /\ nodes[n].body[i].type = "Return" =>
                      /\ nodes[n].body[i].value.type = "Name"
                      /\ InStateInfo(state_info, nodes[n].body[i].value.id)
        /\ Orderly(SelectSeq(nodes[n].body, LAMBDA b : b.type = "If"))

Commands(body) == SelectSeq(body, is_call)
Subconditions(body) == SelectSeq(body, LAMBDA b : b.type = "If")

(* C8: a conditional block of k >= 1 pass commands, then m >= 1 nested
   conditional blocks, then an optional return is accepted by the planner and
   the builder, and its Condition has the k commands, the m subconditions and
   the next state of the return. *)
C8_CommandsThenSubconditions ==
    ( /\ InTestBlock
      /\ Len(ParsedTest) = 1
      /\ Orderly(ParsedTest)
      /\ Commands(ParsedTest[1].body) # <<>>
      /\ Subconditions(ParsedTest[1].body) # <<>> ) =>
        /\ pc # "error"
        /\ (pc = "node" /\ Len(stack) = 1 /\ stack[1].conditions # <<>>) =>
               /\ Len(stack[1].conditions[1].pass_commands)
                      = Len(Commands(ParsedTest[1].body))
               /\ Len(stack[1].conditions[1].subconditions)
                      = Len(Subconditions(ParsedTest[1].body))

\* A command after a conditional block, or a return that is not last
Misordered(body) ==
    \E i, j \in 1..Len(body) :
        /\ i < j
        /\ \/ body[i].type = "If" /\ is_call(body[j])
           \/ body[i].type = "Return"

RECURSIVE AnyMisordered(_)
AnyMisordered(statements) ==
    \E n \in 1..Len(statements) :
        /\ statements[n].type = "If"
        /\ \/ Misordered(statements[n].body)
           \/ Misordered(statements[n].orelse)
           \/ AnyMisordered(statements[n].body)
           \/ AnyMisordered(statements[n].orelse)

\* The test block of a ClassDef as parsed
TestOf(class) == With(SelectSeq(class.body,
                                LAMBDA m : m.type = "FunctionDef" /\ m.name = "test"),
                      LAMBDA ms :
                     IF ms = <<>> THEN <<>> ELSE ms[1].body)

StructuralErrors ==
    { "ESDSyntaxError:pass_command_out_of_order", "ESDSyntaxError:return_not_last",
      "ESDSyntaxError:subcondition_out_of_order",
      "ESDSyntaxError:plan_subcondition_out_of_order" }

(* C9: a test block with a command after a nested conditional block, or with
   a return that is not the last statement of its body, is rejected: no State
   is stored for its class, no Condition list is made of it, and the error of
   a block whose only conditional is the misordered one is a syntax error. *)
C9_MisorderedBodyRejected ==
    /\ \A p \in 1..build_i : ~AnyMisordered(TestOf(script[state_info[p].class]))
    /\ (Building /\ AnyMisordered(TestOf(script[state_info[build_i + 1].class]))) =>
           /\ cur.conditions = <<>>
           /\ pc # "member" \/ member_i = 0
    /\ ( /\ pc = "error"
         /\ InTestBlock
         /\ Len(ParsedTest) = 1
         /\ ParsedTest[1].type = "If"
         /\ ParsedTest[1].test.type = "Call"
         /\ Misordered(ParsedTest[1].body) ) => err \in StructuralErrors

\* `if A(): <if ...>; Cmd(5)` has been rejected by the builder
C9_Witness ==
    /\ pc = "error"
    /\ err = "ESDSyntaxError:pass_command_out_of_order"
    /\ InTestBlock
    /\ AnyMisordered(ParsedTest)
    /\ states = <<>>

-----------------------------------------------------------------------------
(* Properties: else *)

\* The conditional blocks given to the build_conditions call of frame d
GivenTo(d) ==
    IF d = 1 THEN ParsedTest
    ELSE Subconditions(stack[d - 1].if_nodes[stack[d - 1].i].body)

HasElse(nodes) == nodes # <<>> /\ nodes[Len(nodes)].orelse # <<>>

\* An else on a conditional block that is not the last of its list, at any depth
RECURSIVE AnyEarlyElse(_)
AnyEarlyElse(statements) ==
    \/ \E n \in 1..(Len(Subconditions(statements)) - 1) :
           Subconditions(statements)[n].orelse # <<>>
    \/ \E n \in 1..Len(statements) :
           /\ statements[n].type = "If"
           /\ AnyEarlyElse(statements[n].body) \/ AnyEarlyElse(statements[n].orelse)

\* The Condition c is built from the else body
BuiltFromElse(c, body) ==
    /\ c.test = <<65, 161>>
    /\ Len(c.pass_commands) = Len(Commands(body))
    /\ Len(c.subconditions) = Len(ConditionNodes(body))
    /\ c.next_state =
           IF body[Len(body)].type = "Return" /\ body[Len(body)].value.type = "Name"
           THEN StateInfoOf(state_info, body[Len(body)].value.id).index
           ELSE -1

(* C10: at every nesting level an else on the last conditional block makes
   exactly one more Condition, the last of the level's list, with the test
   bytes 0x41 0xA1 and the pass commands, subconditions and next state of the
   else body; an else on a block that is not the last of its level is an error. *)
C10_ElseIsOneLastCondition ==
    /\ (pc = "node") =>
           \A d \in 1..Len(stack) :
               LET given == GivenTo(d)
                   extra == IF HasElse(given) THEN 1 ELSE 0
                   f == stack[d]
               IN  /\ \A n \in 1..(Len(given) - 1) : given[n].orelse = <<>>
                   /\ Len(f.if_nodes) = Len(given) + extra
                   /\ Len(f.conditions) = f.i - 1
                   /\ f.i <= Len(f.if_nodes) + 1
                   /\ (extra = 1 /\ Len(f.conditions) = Len(given) + 1) =>
                          BuiltFromElse(f.conditions[Len(given) + 1],
                                        given[Len(given)].orelse)
    /\ \A p \in 1..build_i : ~AnyEarlyElse(TestOf(script[state_info[p].class]))
    /\ (InTestBlock /\ AnyEarlyElse(ParsedTest)) => cur.conditions = <<>>
    /\ ( /\ InTestBlock
         /\ \E n \in 1..(Len(ParsedTest) - 1) :
                ParsedTest[n].type = "If" /\ ParsedTest[n].orelse # <<>> ) =>
           /\ pc \in {"member", "call", "error"}
           /\ stack = <<>>
           /\ pc = "error" =>
                  err \in {"ESDSyntaxError:else_not_last", "ESDSyntaxError:only_if_blocks"}

\* A list of two conditional blocks, the second with an else, is built: three
\* Conditions, the third from the else
C10_Witness ==
    /\ pc = "node"
    /\ Len(stack) = 1
    /\ Len(GivenTo(1)) = 2
    /\ HasElse(GivenTo(1))
    /\ Len(stack[1].conditions) = 3
    /\ stack[1].conditions[3].test = <<65, 161>>

-----------------------------------------------------------------------------
(* Properties: the states of the machine *)

(* C11: states are never overwritten: a script in which two state classes have
   the same index, or the same name, is not compiled to the end, so a finished
   compilation has one State per state class of the script. *)
C11_NoStateOverwritten ==
    pc = "done" =>
        /\ \A p, q \in 1..Len(script) :
               p # q => /\ script[p].docstring.index # script[q].docstring.index
                        /\ script[p].name # script[q].name
        /\ Len(states) = Len(script)

\* The members of the state class build_state is working on, as parsed
ParsedMembers == script[state_info[build_i + 1].class].body

BlockNames == {"test", "enter", "exit", "ongoing"}

\* Member k is a block of a name that an earlier member has
SecondBlock(members, k) ==
    /\ members[k].type = "FunctionDef"
    /\ members[k].name \in BlockNames
    /\ \E j \in 1..(k - 1) :
           members[j].type = "FunctionDef" /\ members[j].name = members[k].name

\* Member k is a function of none of the known names
UnknownMember(members, k) ==
    /\ members[k].type = "FunctionDef"
    /\ members[k].name \notin BlockNames \cup {"previous_states"}

(* C12: in a state class a second test, enter, exit or ongoing block is
   rejected with a syntax error whatever the first one held, a
   previous_states block is passed over, and a member of any other name is an
   error: build_state never gets past such a member. *)
C12_BlocksAtMostOnce ==
    /\ \A p \in 1..build_i :
           \A k \in 1..Len(script[state_info[p].class].body) :
               /\ ~SecondBlock(script[state_info[p].class].body, k)
               /\ ~UnknownMember(script[state_info[p].class].body, k)
    /\ Building =>
           /\ \A k \in 1..member_i :
                  ~SecondBlock(ParsedMembers, k) /\ ~UnknownMember(ParsedMembers, k)
           /\ (pc = "error" /\ member_i < Len(ParsedMembers)) =>
                  /\ SecondBlock(ParsedMembers, member_i + 1) =>
                         err \in {"ESDSyntaxError:test_defined_more_than_once",
                                  "ESDSyntaxError:commands_defined_more_than_once"}
                  /\ ~( /\ ParsedMembers[member_i + 1].type = "FunctionDef"
                        /\ ParsedMembers[member_i + 1].name = "previous_states" )

\* A second exit block is rejected after an exit block of two commands and a
\* previous_states block were taken
C12_Witness ==
    /\ pc = "error"
    /\ err = "ESDSyntaxError:commands_defined_more_than_once"
    /\ Building
    /\ member_i = 2
    /\ ParsedMembers[1].name = "exit"
    /\ ParsedMembers[2].name = "previous_states"
    /\ SecondBlock(ParsedMembers, 3)

\* build_conditions is called with a lone return of -1 or of a declared state
LoneReturnCall ==
    /\ pc = "call"
    /\ Len(callee.if_nodes) = 1
    /\ callee.if_nodes[1].type = "Return"
    /\ \/ callee.if_nodes[1].value = MinusOne
       \/ /\ callee.if_nodes[1].value.type = "Name"
          /\ InStateInfo(state_info, callee.if_nodes[1].value.id)

(* C13: a test block that is one unconditional return gives exactly one
   Condition with the test bytes 0x41 0xA1 and no pass commands or
   subconditions, its next state -1 for `return -1` and the index of the state
   for a declared name; the planner is not run: registers, seen set, budget
   and queue are as before. *)
C13_LoneReturn ==
    [][ LoneReturnCall =>
            /\ pc' = "member"
            /\ cur'.conditions =
                   << [ next_state |->
                            IF callee.if_nodes[1].value = MinusOne THEN -1
                            ELSE StateInfoOf(state_info, callee.if_nodes[1].value.id).index,
                        test |-> <<65, 161>>,
                        pass_commands |-> <<>>,
                        subconditions |-> <<>> ] >>
            /\ UNCHANGED <<registers, state_call_set, to_write_count, to_write,
                           current_to_write>> ]_vars

\* `return -1` was the test block of a state compiled after a state that
\* left calls in the seen set
C13_Witness ==
    /\ pc = "member"
    /\ build_i > 0
    /\ cur.conditions = <<Condition(-1, <<65, 161>>, <<>>, <<>>)>>
    /\ state_call_set # {}
    /\ to_write_count > 0

-----------------------------------------------------------------------------
(* Properties: expressions *)

(* C14: `not` on a test-function call compiles to the encoding of the call
   followed by the equals-one suffix 0x41 0x95; `not` on any other expression
   is an error. *)
C14_NotOnCall ==
    \A k \in 1..Len(node_log) :
        ( /\ node_log[k].if_node.test.type = "UnaryOp"
          /\ node_log[k].if_node.test.op = "Not" ) =>
            IF node_log[k].if_node.test.operand.type = "Call"
            THEN /\ \E enc \in OperandEncodings(node_log[k].if_node.test.operand) :
                        node_log[k].test_ezl = enc \o <<65, 149, 161>>
                 /\ node_log[k].if_node.body = <<Return(Name("End"))>> => node_log[k].err = ""
            ELSE node_log[k].err # ""

(* C15: compiling the tree of a script a second time, the register context
   fresh each time, gives the same output: the first compilation leaves the
   tree as parsed, and the second ends with the states of the first. *)
C15_SameOutputTwice ==
    /\ (pc = "done" /\ previous.run = 1) => tree = script
    /\ (previous.run = 2 /\ pc \in {"done", "error"}) =>
           pc = "done" /\ states = previous.states

\* The integer of the literal that a script of NumberScripts passes to Cmd
\* in its enter block and to F in its test
NumberOf(literal) ==
    IF literal.type = "UnaryOp" THEN 0 - literal.operand.value ELSE literal.value
ScriptNumber == NumberOf(script[1].body[1].body[1].value.args[1])

\* What a reader of the bytes makes of them: byte - 64, or after 0x82 the
\* little-endian int32 (the last byte carries the sign)
Decode(bytes) ==
    IF Len(bytes) = 1 THEN bytes[1] - 64
    ELSE bytes[2] + 256 * bytes[3] + 65536 * bytes[4]
         + 16777216 * (IF bytes[5] >= 128 THEN bytes[5] - 256 ELSE bytes[5])

\* bytes is one of the two forms of n, and decodes to n
EncodesNumber(bytes, n) ==
    /\ Len(bytes) \in {1, 5}
    /\ Len(bytes) = 1 <=> (-64 <= n /\ n <= 62)
    /\ Len(bytes) = 1 => bytes[1] = n + 64 /\ bytes[1] # 130
    /\ Len(bytes) = 5 => bytes[1] = 130 /\ \A k \in 2..5 : bytes[k] \in 0..255
    /\ Decode(bytes) = n

\* The bytes in front of the last one
ButLast(bytes) == SubSeq(bytes, 1, Len(bytes) - 1)

(* C16: the bytes of an integer n are the single byte n + 64 exactly when
   -64 <= n <= 62 and otherwise 0x82 and the four little-endian bytes of n;
   they decode to n, and a single byte is never 0x82. Checked on the argument
   of the stored enter command and on the argument in the test of the stored
   condition. *)
C16_NumberRoundTrip ==
    (pc = "done" /\ script \in NumberScripts) =>
        /\ Len(states[1].enter_commands) = 1
        /\ Len(states[1].enter_commands[1].args) = 1
        /\ With(states[1].enter_commands[1].args[1], LAMBDA arg :
               arg[Len(arg)] = 161 /\ EncodesNumber(ButLast(arg), ScriptNumber))
        /\ Len(states[1].conditions) = 1
        /\ With(states[1].conditions[1].test, LAMBDA test :
               /\ test[1] = TEST_FUNCTIONS_ID["F"] + 64
               /\ SubSeq(test, Len(test) - 1, Len(test)) = FUNCTION_ARG_BYTES(1) \o <<161>>
               /\ EncodesNumber(SubSeq(test, 2, Len(test) - 2), ScriptNumber))

\* 63, the first integer above the single-byte range, has been compiled
C16_Witness ==
    /\ pc = "done"
    /\ script \in NumberScripts
    /\ ScriptNumber = 63
    /\ states[1].enter_commands[1].args[1] = <<130, 63, 0, 0, 0, 161>>

(* C17: when a condition node has been compiled, its list of pending
   first-time writes is empty: every signature the planner queued for the
   node has been found by the expression compiler and is in a register. *)
C17_PendingListEmptied ==
    \A k \in 1..Len(node_log) :
        node_log[k].err = "" =>
            /\ node_log[k].current_to_write = <<>>
            /\ \A j \in 1..Len(node_log[k].to_write) :
                   Holds(node_log[k].registers, node_log[k].to_write[j])

\* build_conditions stands at `self.to_write.get()` of a node of its list
AtDequeue == pc = "node" /\ stack[Len(stack)].i <= Len(stack[Len(stack)].if_nodes)

(* C18: every dequeue of build_conditions finds the pending-write queue
   non-empty, whatever the states before and the nesting of subconditions and
   else blocks, and the compilation ends with a result or an error. *)
C18_DequeueNeverWaits ==
    /\ [](AtDequeue => to_write # <<>>)
    /\ <>(pc \in {"done", "error"})

\* In a state after the first, the node made of the else of a nested
\* condition has taken its entry from the queue
C18_Witness ==
    /\ build_i >= 1
    /\ \E k \in 1..Len(node_log) :
           /\ node_log[k].if_node.test = Constant(1)
           /\ Len(node_log[k].node) >= 2
           /\ node_log[k].err = ""

====
